---- MODULE Spec2Model ----
(***************************************************************************)
(* Model of blackbone::DriverControl (DriverControl.cpp): the lifecycle of *)
(* the control handle _hDriver (EnsureLoaded / Reload / Unload /           *)
(* destructor) and the command operations that issue DeviceIoControl on    *)
(* that handle.  Every public method is one atomic action (single caller); *)
(* the operating system (CreateFile, CloseHandle, NtLoadDriver,            *)
(* NtUnloadDriver, the registry, DeviceIoControl, malloc) is modelled as   *)
(* nondeterministic outcomes.  A method is an operator from the machine    *)
(* state at entry to the SET of machine states it can return in.           *)
(***************************************************************************)
EXTENDS Integers, Sequences, FiniteSets, TLC

\* ------------------------------------------------------------------ bounds
\* Size of the process handle table: CreateFile fails when every value is in use.
MaxHandles == 2
\* Capacity, in characters including the terminator, of the string fields of
\* the request records (scaled down).
FieldCap == 6
\* Largest number of mapping entries in a MapMemory response.
MaxEntries == 2

\* --------------------------------------------------------------- constants
INVALID_HANDLE_VALUE == -1
STATUS_SUCCESS == 0
\* 0xC00000C0 as a signed 32-bit NTSTATUS
STATUS_DEVICE_DOES_NOT_EXIST == -1073741632
\* the byte count MapMemory expects from the probe call
PROBE_BYTES == 4

\* NT_SUCCESS: an NTSTATUS is a signed 32-bit value, success when >= 0
NT_SUCCESS(s) == s >= 0

DRIVER_SVC_NAME == "BlackBone"

\* Failure codes the OS reports, one per kind of call (signed 32-bit NTSTATUS):
\* CreateFile: STATUS_OBJECT_NAME_NOT_FOUND (0xC0000034)
CreateFileFail == {-1073741772}
\* NtLoadDriver: STATUS_PRIVILEGE_NOT_HELD (0xC0000061)
LoadFail == {-1073741727}
\* NtUnloadDriver: STATUS_INVALID_DEVICE_REQUEST (0xC0000010)
UnloadFail == {-1073741808}
\* DeviceIoControl: STATUS_INVALID_PARAMETER (0xC000000D)
IoctlFail == {-1073741811}
\* registry API: LSTATUS ERROR_ACCESS_DENIED, whose NTSTATUS is STATUS_ACCESS_DENIED (0xC0000022)
RegFail == {5}
RegFailNt == {-1073741790}

\* Paths are sequences of path components.
ExeDir == "<exedir>"
ExplicitPath == <<"C:\\drv\\my.sys">>
Paths == {<<>>, ExplicitPath}

\* Strings are sequences of characters; the arguments tried are the empty
\* string, the longest string that fits a field and the shortest that does not.
Str(n) == [i \in 1..n |-> "a"]
Strings == {Str(0), Str(FieldCap - 1), Str(FieldCap)}

\* the paths tried with MMapDriver, whose native form is four characters
\* longer: those above and the two whose native form is the longest string
\* that fits a field and the shortest that does not
DriverPaths == Strings \cup {Str(FieldCap - 5), Str(FieldCap - 4)}

\* the two threads of the unserialized use of one DriverControl
Threads == {"t1", "t2"}
\* no device-control call has just been issued
NoIo == [h |-> INVALID_HANDLE_VALUE, open |-> TRUE, closer |-> "none"]

\* Arguments of the command operations
Pids == {1}
Base0 == 4096
Size0 == 8192
\* Responses of the driver
RespAddrs == {0, 65536}
\* size hints the probe call of MapMemory reports
SizeHints == {24 + 24 * n : n \in 1..MaxEntries}
\* a mapping entry of a MapMemory response
Entries == {[originalPtr |-> 4096, size |-> 16, newPtr |-> 65536],
            [originalPtr |-> 8192, size |-> 16, newPtr |-> 69632]}
EntrySeqs == UNION {[1..n -> Entries] : n \in 0..MaxEntries}
MapResponses == {[count |-> Len(es), entries |-> es, hostPage |-> 100,
                  targetPage |-> 200, pipeHandle |-> 300] : es \in EntrySeqs}
\* the caller's MapMemoryResult object before the call: regions is a map
\* from (originalPtr, size) to newPtr
EmptyResult == [regions |-> {}, hostSharedPage |-> 0, targetSharedPage |-> 0,
                targetPipe |-> 0]
UsedResult == [regions |-> {[key |-> <<4096, 16>>, val |-> 61440]}, hostSharedPage |-> 1,
               targetSharedPage |-> 2, targetPipe |-> 3]

VARIABLES
    hDriver,      \* DriverControl::_hDriver
    openHandles,  \* OS: handles to the control device this process holds open
    badClose,     \* OS: number of CloseHandle calls on a value that is not an open handle
    lastStatus,   \* OS: the thread's last NTSTATUS (what LastNtStatus() reads)
    crashed,      \* the process was terminated by the CRT invalid parameter handler
    destroyed,    \* ~DriverControl has run
    call,         \* the last operation: name, arguments, handle at entry, result, OS calls made
    prevOp,       \* the kind of the operation before it
    th,           \* two unserialized callers: each thread's operation, position and held handle
    lastIo,       \* two unserialized callers: the last DeviceIoControl issued
    lost,         \* two unserialized callers: open handles no longer stored in _hDriver
    raced         \* two unserialized callers: two operations have overlapped

vars == <<hDriver, openHandles, badClose, lastStatus,
          crashed, destroyed, call, prevOp, th, lastIo, lost, raced>>
\* the variables of the two-thread specification that one caller leaves alone
mtVars == <<th, lastIo, lost, raced>>

\* ------------------------------------------------------ machine state record
\* The machine state threaded through a method: the variables above plus the
\* method's log of OS calls (events), its return value (ret), its output
\* parameters (out), the result of the last OS call (rv) and the answers of
\* the version predicates when the method asked for them (ver).
\* An OS call in the log: its name, the handle it is made on (0: none), its
\* arguments, its result, and the data it returned
EvOut(c, h, a, r, o) == [call |-> c, h |-> h, arg |-> a, res |-> r, out |-> o]
Ev(c, h, a, r) == EvOut(c, h, a, r, <<>>)

Begin(out0) ==
    [hDriver |-> hDriver, openHandles |-> openHandles,
     badClose |-> badClose, lastStatus |-> lastStatus,
     crashed |-> FALSE,
     events |-> <<>>, ret |-> STATUS_SUCCESS, out |-> out0, rv |-> 0,
     ver |-> <<>>]

Log(m, e) == [m EXCEPT !.events = Append(@, e)]
Ret(m, s) == [m EXCEPT !.ret = s]

\* Bind(S, F): run F on every outcome of S
Bind(S, F(_)) == UNION {F(m) : m \in S}

\* --------------------------------------------------------------- OS calls
\* LastNtStatus(): the thread's last status value
LastNtStatus(m) == m.lastStatus
\* LastNtStatus(status): store status as the thread's last status and return it
SetLastNtStatus(m, s) == [m EXCEPT !.lastStatus = s]

\* CreateFile( BLACKBONE_DEVICE_FILE, ... OPEN_EXISTING ... )
\* succeeds with the lowest free handle value, or fails with INVALID_HANDLE_VALUE
\* and a failure status in the thread's last-status slot
CreateFile(m) ==
    LET free == (1..MaxHandles) \ m.openHandles
    IN  {[Log(m, Ev("CreateFile", h, <<>>, 1))
             EXCEPT !.openHandles = @ \cup {h}, !.rv = h]
           : h \in {x \in free : \A y \in free : x <= y}}
        \cup
        {[Log(m, Ev("CreateFile", INVALID_HANDLE_VALUE, <<>>, 0))
             EXCEPT !.lastStatus = e, !.rv = INVALID_HANDLE_VALUE] : e \in CreateFileFail}

\* CloseHandle( h )
CloseHandle(m, h) ==
    IF h \in m.openHandles
    THEN [Log(m, Ev("CloseHandle", h, <<>>, 1)) EXCEPT !.openHandles = @ \ {h}]
    ELSE [Log(m, Ev("CloseHandle", h, <<>>, 0)) EXCEPT !.badClose = 1]

\* NtUnloadDriver( regPath ): returns its status, which is left in rv
NtUnloadDriver(m, regPath) ==
    {[Log(m, Ev("NtUnloadDriver", 0, regPath, s)) EXCEPT !.rv = s] : s \in {STATUS_SUCCESS} \cup UnloadFail}

\* NtLoadDriver( regPath )
NtLoadDriver(m, regPath) ==
    {[Log(m, Ev("NtLoadDriver", 0, regPath, s)) EXCEPT !.rv = s] : s \in {STATUS_SUCCESS} \cup LoadFail}

\* A registry call (the event log records what it writes): succeeds (rv = 0)
\* or fails with an LSTATUS; the registry API reports its error in the return
\* value and may or may not leave a status in the thread's last-status slot.
RegCall(m, name, arg) ==
    {[Log(m, Ev(name, 0, arg, 0)) EXCEPT !.rv = 0]}
    \cup
    {[Log(m, Ev(name, 0, arg, l)) EXCEPT !.rv = l] : l \in RegFail}
    \cup
    {[Log(m, Ev(name, 0, arg, l)) EXCEPT !.rv = l, !.lastStatus = e]
        : l \in RegFail, e \in RegFailNt}

RegCloseKey(m, k) == Log(m, Ev("RegCloseKey", 0, <<k>>, 0))

RegServicesPath == <<"\\registry\\machine\\SYSTEM\\CurrentControlSet\\Services\\">>

\* ------------------------------------------------- DriverControl, lifecycle
\* DriverControl::PrepareDriverRegEntry: rv is the LSTATUS it returns
PrepareDriverRegEntry(m, svcName, path) ==
    LET wszLocalPath == <<"\\??\\">> \o path
        \* dwType is a BYTE holding 1, of which sizeof( DWORD ) bytes are written:
        \* the low byte of the stored value is 1, the upper three bytes are
        \* whatever follows dwType on the stack
        dwType == [low |-> 1, high |-> "indeterminate"]
        SetType(m3) ==
            {RegCloseKey(RegCloseKey(m4, "key2"), "key1")
               : m4 \in RegCall(m3, "RegSetValueExW", <<"Type", dwType>>)}
        SetImagePath(m2) ==
            Bind(RegCall(m2, "RegSetValueExW", <<"ImagePath", wszLocalPath>>),
                 LAMBDA m3 : IF m3.rv # 0
                             THEN {RegCloseKey(RegCloseKey(m3, "key2"), "key1")}
                             ELSE SetType(m3))
        CreateKey(m1) ==
            Bind(RegCall(m1, "RegCreateKeyW", <<svcName>>),
                 LAMBDA m2 : IF m2.rv # 0
                             THEN {RegCloseKey(m2, "key1")}
                             ELSE SetImagePath(m2))
    IN  Bind(RegCall(m, "RegOpenKeyW", <<"system\\CurrentControlSet\\Services">>),
             LAMBDA m1 : IF m1.rv # 0 THEN {m1} ELSE CreateKey(m1))

\* DriverControl::LoadDriver: ret is the NTSTATUS it returns
LoadDriver(m, svcName, path) ==
    LET regPath == RegServicesPath \o <<svcName>>
        Start(m1) == {Ret(m2, m2.rv) : m2 \in NtLoadDriver(m1, regPath)}
    IN  IF path # <<>>
        THEN Bind(PrepareDriverRegEntry(m, svcName, path),
                  LAMBDA m1 : IF m1.rv # 0
                              THEN {Ret(m1, LastNtStatus(m1))}
                              ELSE Start(m1))
        ELSE Start(m)

\* UnloadDriver changed to report success whatever NtUnloadDriver returned
UnloadDriver_IgnoreStatus(m, svcName) ==
    LET regPath == RegServicesPath \o <<svcName>>
    IN  {Ret(m1, STATUS_SUCCESS) : m1 \in NtUnloadDriver(m, regPath)}

\* DriverControl::UnloadDriver
UnloadDriver(m, svcName) ==
    LET regPath == RegServicesPath \o <<svcName>>
    IN  {Ret(m1, m1.rv) : m1 \in NtUnloadDriver(m, regPath)}

\* Unload changed to drop the handle without closing it
Unload_NoClose(m) ==
    LET m1 == IF m.hDriver # INVALID_HANDLE_VALUE
              THEN [m EXCEPT !.hDriver = INVALID_HANDLE_VALUE]
              ELSE m
    IN  UnloadDriver(m1, DRIVER_SVC_NAME)

\* Unload changed to leave the closed handle in _hDriver
Unload_NoReset(m) ==
    LET m1 == IF m.hDriver # INVALID_HANDLE_VALUE
              THEN CloseHandle(m, m.hDriver)
              ELSE m
    IN  UnloadDriver(m1, DRIVER_SVC_NAME)

\* DriverControl::Unload
Unload(m) ==
    LET m1 == IF m.hDriver # INVALID_HANDLE_VALUE
              THEN [CloseHandle(m, m.hDriver) EXCEPT !.hDriver = INVALID_HANDLE_VALUE]
              ELSE m
    IN  UnloadDriver(m1, DRIVER_SVC_NAME)

\* the default filename chosen by testing the oldest version first
DefaultFilename_OldestFirst(w81, w8, w7) ==
    IF w7 THEN "BlackBoneDrv7.sys"
    ELSE IF w8 THEN "BlackBoneDrv8.sys"
    ELSE IF w81 THEN "BlackBoneDrv81.sys"
    ELSE "BlackBoneDrv.sys"

\* The default driver file name chosen in Reload from the three version
\* predicates IsWindows8Point1OrGreater, IsWindows8OrGreater, IsWindows7OrGreater
DefaultFilename(w81, w8, w7) ==
    IF w81 THEN "BlackBoneDrv81.sys"
    ELSE IF w8 THEN "BlackBoneDrv8.sys"
    ELSE IF w7 THEN "BlackBoneDrv7.sys"
    ELSE "BlackBoneDrv.sys"

\* The path Reload loads: the supplied one, or the default next to the executable
ResolvePath(path, w81, w8, w7) ==
    IF path = <<>>
    THEN <<ExeDir>> \o <<"\\">> \o <<DefaultFilename(w81, w8, w7)>>
    ELSE path

\* IsWindows8Point1OrGreater(), IsWindows8OrGreater(), IsWindows7OrGreater() on
\* a host that answers w81, w8, w7: the answers Reload obtains.  It asks only
\* when no path is supplied, newest version first, and stops at the first yes.
Versions(m, path, w81, w8, w7) ==
    IF path # <<>> THEN m
    ELSE [m EXCEPT !.ver = IF w81 THEN <<TRUE>>
                           ELSE IF w8 THEN <<FALSE, TRUE>>
                           ELSE <<FALSE, FALSE, w7>>]

\* Reload changed to return the status of a failed Unload
ReloadOn_StopsOnUnloadFailure(m, path, w81, w8, w7) ==
    LET p == ResolvePath(path, w81, w8, w7)
        Open(m2) ==
            {LET m4 == [m3 EXCEPT !.hDriver = m3.rv]
             IN  IF m4.hDriver = INVALID_HANDLE_VALUE
                 THEN Ret(m4, LastNtStatus(m4))
                 ELSE Ret(m4, STATUS_SUCCESS)
               : m3 \in CreateFile(m2)}
        Load(m1) ==
            IF ~NT_SUCCESS(m1.ret) THEN {m1}
            ELSE Bind(LoadDriver(Versions(m1, path, w81, w8, w7), DRIVER_SVC_NAME, p),
                      LAMBDA m2 : IF ~NT_SUCCESS(m2.ret)
                                  THEN {Ret(SetLastNtStatus(m2, m2.ret), m2.ret)}
                                  ELSE Open(m2))
    IN  Bind(Unload(m), Load)

\* DriverControl::Reload with the version predicates' values
ReloadOn(m, path, w81, w8, w7) ==
    LET p == ResolvePath(path, w81, w8, w7)
        Open(m2) ==
            {LET m4 == [m3 EXCEPT !.hDriver = m3.rv]
             IN  IF m4.hDriver = INVALID_HANDLE_VALUE
                 THEN Ret(m4, LastNtStatus(m4))
                 ELSE Ret(m4, STATUS_SUCCESS)
               : m3 \in CreateFile(m2)}
        Load(m1) ==
            Bind(LoadDriver(Versions(m1, path, w81, w8, w7), DRIVER_SVC_NAME, p),
                 LAMBDA m2 : IF ~NT_SUCCESS(m2.ret)
                             THEN {Ret(SetLastNtStatus(m2, m2.ret), m2.ret)}
                             ELSE Open(m2))
    IN  Bind(Unload(m), Load)

\* DriverControl::Reload
Reload(m, path) ==
    IF path = <<>>
    THEN UNION {ReloadOn(m, path, w81, w8, w7) : w81 \in BOOLEAN, w8 \in BOOLEAN, w7 \in BOOLEAN}
    ELSE ReloadOn(m, path, TRUE, TRUE, TRUE)

\* EnsureLoaded changed to open the device without testing _hDriver first
EnsureLoaded_NoFastReturn(m, path) ==
    Bind(CreateFile(m),
         LAMBDA m1 :
           LET m2 == [m1 EXCEPT !.hDriver = m1.rv]
           IN  IF m2.hDriver # INVALID_HANDLE_VALUE
               THEN {Ret(m2, STATUS_SUCCESS)}
               ELSE Reload(m2, path))

\* EnsureLoaded changed to start a new instance without trying the direct open
EnsureLoaded_NoDirectOpen(m, path) ==
    IF m.hDriver # INVALID_HANDLE_VALUE
    THEN {Ret(m, STATUS_SUCCESS)}
    ELSE Reload(m, path)

\* DriverControl::EnsureLoaded
EnsureLoaded(m, path) ==
    IF m.hDriver # INVALID_HANDLE_VALUE
    THEN {Ret(m, STATUS_SUCCESS)}
    ELSE Bind(CreateFile(m),
              LAMBDA m1 :
                LET m2 == [m1 EXCEPT !.hDriver = m1.rv]
                IN  IF m2.hDriver # INVALID_HANDLE_VALUE
                    THEN {Ret(m2, STATUS_SUCCESS)}
                    ELSE Reload(m2, path))

\* ------------------------------------------------ DriverControl, commands
\* DeviceIoControl( h, code, &data, sizeof( data ), out, outSize, &bytes, NULL ):
\* succeeds with one of the responses resps, or fails and leaves a failure
\* status in the thread's last-status slot.  rv is [ok, resp].
DeviceIoControl(m, h, code, data, outSize, resps) ==
    {[Log(m, EvOut("DeviceIoControl", h, <<code, data, outSize>>, 1, r))
         EXCEPT !.rv = [ok |-> TRUE, resp |-> r]] : r \in resps}
    \cup
    {[Log(m, Ev("DeviceIoControl", h, <<code, data, outSize>>, 0))
         EXCEPT !.lastStatus = e, !.rv = [ok |-> FALSE, resp |-> <<>>]] : e \in IoctlFail}

\* malloc( size ): a block (rv = 1) or NULL (rv = 0)
Malloc(m, size) ==
    {[Log(m, Ev("malloc", 0, <<size>>, p)) EXCEPT !.rv = p] : p \in {0, 1}}

\* free( p )
Free(m, p) == Log(m, Ev("free", 0, <<p>>, 0))

\* wcscpy_s taking a field to hold one character less than it does
Fits_Short(src, cap) == Len(src) + 1 < cap

\* wcscpy_s( dest, src ) into a field of cap characters: the copy, or, when src
\* with its terminator does not fit, the invalid parameter handler, which
\* terminates the process
Fits(src, cap) == Len(src) < cap
Crash(m) == [m EXCEPT !.crashed = TRUE]

\* emplace changed to overwrite the address of a key that is present
Emplace_Overwrite(regions, k, v) ==
    {e \in regions : e.key # k} \cup {[key |-> k, val |-> v]}

\* std::map::emplace: inserts unless the key is present
Emplace(regions, k, v) ==
    IF \E e \in regions : e.key = k THEN regions
    ELSE regions \cup {[key |-> k, val |-> v]}

RECURSIVE EmplaceAll(_, _, _)
\* the loop of MapMemory over pResult->entries[i], i < count, from index i
EmplaceAll(regions, entries, i) ==
    IF i > Len(entries) THEN regions
    ELSE EmplaceAll(Emplace(regions, <<entries[i].originalPtr, entries[i].size>>,
                            entries[i].newPtr), entries, i + 1)

\* MapMemory changed to fetch after any successful probe, whatever its byte count
MapMemory_NoBytesCheck(m, pid, pipeName, mapSections) ==
    LET data == [pid |-> pid, pipeName |-> pipeName, mapSections |-> mapSections]
        code == "IOCTL_BLACKBONE_MAP_MEMORY"
        probes == {[bytes |-> 0, sizeRequired |-> 0]}
                  \cup {[bytes |-> PROBE_BYTES, sizeRequired |-> n] : n \in SizeHints}
        Fetch(m1, sizeRequired) ==
            Bind(Malloc(m1, sizeRequired),
                 LAMBDA m2 :
                   LET pResult == m2.rv
                   IN  {IF m3.rv.ok
                        THEN LET r == m3.rv.resp
                                 res == [regions |-> EmplaceAll(m3.out.regions, r.entries, 1),
                                         hostSharedPage |-> r.hostPage,
                                         targetSharedPage |-> r.targetPage,
                                         targetPipe |-> r.pipeHandle]
                             IN  Ret(Free([m3 EXCEPT !.out = res], pResult), STATUS_SUCCESS)
                        ELSE Ret(m3, LastNtStatus(m3))
                         : m3 \in DeviceIoControl(m2, m2.hDriver, code, data, sizeRequired,
                                                  IF pResult = 0 THEN {} ELSE MapResponses)})
    IN  IF m.hDriver = INVALID_HANDLE_VALUE
        THEN {Ret(m, STATUS_DEVICE_DOES_NOT_EXIST)}
        ELSE IF ~Fits(pipeName, FieldCap)
        THEN {Crash(m)}
        ELSE Bind(DeviceIoControl(m, m.hDriver, code, data, 4, probes),
                  LAMBDA m1 : IF m1.rv.ok
                              THEN Fetch(m1, m1.rv.resp.sizeRequired)
                              ELSE {Ret(m1, LastNtStatus(m1))})

\* DriverControl::MapMemory
MapMemory(m, pid, pipeName, mapSections) ==
    LET data == [pid |-> pid, pipeName |-> pipeName, mapSections |-> mapSections]
        code == "IOCTL_BLACKBONE_MAP_MEMORY"
        probes == {[bytes |-> 0, sizeRequired |-> 0]}
                  \cup {[bytes |-> PROBE_BYTES, sizeRequired |-> n] : n \in SizeHints}
        Fetch(m1, sizeRequired) ==
            Bind(Malloc(m1, sizeRequired),
                 LAMBDA m2 :
                   LET pResult == m2.rv
                   IN  {IF m3.rv.ok
                        THEN LET r == m3.rv.resp
                                 res == [regions |-> EmplaceAll(m3.out.regions, r.entries, 1),
                                         hostSharedPage |-> r.hostPage,
                                         targetSharedPage |-> r.targetPage,
                                         targetPipe |-> r.pipeHandle]
                             IN  Ret(Free([m3 EXCEPT !.out = res], pResult), STATUS_SUCCESS)
                        ELSE Ret(m3, LastNtStatus(m3))
                         : m3 \in DeviceIoControl(m2, m2.hDriver, code, data, sizeRequired,
                                                  IF pResult = 0 THEN {} ELSE MapResponses)})
    IN  IF m.hDriver = INVALID_HANDLE_VALUE
        THEN {Ret(m, STATUS_DEVICE_DOES_NOT_EXIST)}
        ELSE IF ~Fits(pipeName, FieldCap)
        THEN {Crash(m)}
        ELSE Bind(DeviceIoControl(m, m.hDriver, code, data, 4, probes),
                  LAMBDA m1 : IF m1.rv.ok /\ m1.rv.resp.bytes = PROBE_BYTES
                              THEN Fetch(m1, m1.rv.resp.sizeRequired)
                              ELSE {Ret(m1, LastNtStatus(m1))})

\* DriverControl::MapMemoryRegion
MapMemoryRegion(m, pid, base, size) ==
    LET data == [pid |-> pid, base |-> base, size |-> size]
        resps == {[newPtr |-> a, originalPtr |-> base, removedPtr |-> 0,
                   removedSize |-> 0, size |-> size] : a \in RespAddrs}
    IN  IF m.hDriver = INVALID_HANDLE_VALUE
        THEN {Ret(m, STATUS_DEVICE_DOES_NOT_EXIST)}
        ELSE {IF m1.rv.ok
              THEN Ret([m1 EXCEPT !.out = m1.rv.resp], STATUS_SUCCESS)
              ELSE Ret(m1, LastNtStatus(m1))
               : m1 \in DeviceIoControl(m, m.hDriver, "IOCTL_BLACKBONE_MAP_REGION",
                                        data, 5, resps)}

\* UnmapMemory changed to issue its call once more after a failure
UnmapMemory_Retry(m, pid) ==
    LET data == [pid |-> pid]
        Issue(m0) == DeviceIoControl(m0, m0.hDriver, "IOCTL_BLACKBONE_UNMAP_MEMORY",
                                     data, 0, {<<>>})
    IN  IF m.hDriver = INVALID_HANDLE_VALUE
        THEN {Ret(m, STATUS_DEVICE_DOES_NOT_EXIST)}
        ELSE Bind(Issue(m),
                  LAMBDA m1 : IF m1.rv.ok THEN {Ret(m1, STATUS_SUCCESS)}
                              ELSE {IF m2.rv.ok THEN Ret(m2, STATUS_SUCCESS)
                                    ELSE Ret(m2, LastNtStatus(m2)) : m2 \in Issue(m1)})

\* DriverControl::UnmapMemory
UnmapMemory(m, pid) ==
    LET data == [pid |-> pid]
    IN  IF m.hDriver = INVALID_HANDLE_VALUE
        THEN {Ret(m, STATUS_DEVICE_DOES_NOT_EXIST)}
        ELSE {IF m1.rv.ok THEN Ret(m1, STATUS_SUCCESS) ELSE Ret(m1, LastNtStatus(m1))
               : m1 \in DeviceIoControl(m, m.hDriver, "IOCTL_BLACKBONE_UNMAP_MEMORY",
                                        data, 0, {<<>>})}

\* DriverControl::UnmapMemoryRegion
UnmapMemoryRegion(m, pid, base, size) ==
    LET data == [pid |-> pid, base |-> base, size |-> size]
    IN  IF m.hDriver = INVALID_HANDLE_VALUE
        THEN {Ret(m, STATUS_DEVICE_DOES_NOT_EXIST)}
        ELSE {IF ~m1.rv.ok THEN Ret(m1, LastNtStatus(m1)) ELSE Ret(m1, STATUS_SUCCESS)
               : m1 \in DeviceIoControl(m, m.hDriver, "IOCTL_BLACKBONE_UNMAP_REGION",
                                        data, 0, {<<>>})}

\* DriverControl::DisableDEP
DisableDEP(m, pid) ==
    LET disableDep == [pid |-> pid]
    IN  IF m.hDriver = INVALID_HANDLE_VALUE
        THEN {Ret(m, STATUS_DEVICE_DOES_NOT_EXIST)}
        ELSE {IF ~m1.rv.ok THEN Ret(m1, LastNtStatus(m1)) ELSE Ret(m1, STATUS_SUCCESS)
               : m1 \in DeviceIoControl(m, m.hDriver, "IOCTL_BLACKBONE_DISABLE_DEP",
                                        disableDep, 0, {<<>>})}

\* DriverControl::ProtectProcess
ProtectProcess(m, pid, enable) ==
    LET setProt == [pid |-> pid, enable |-> enable]
    IN  IF m.hDriver = INVALID_HANDLE_VALUE
        THEN {Ret(m, STATUS_DEVICE_DOES_NOT_EXIST)}
        ELSE {IF ~m1.rv.ok THEN Ret(m1, LastNtStatus(m1)) ELSE Ret(m1, STATUS_SUCCESS)
               : m1 \in DeviceIoControl(m, m.hDriver, "IOCTL_BLACKBONE_SET_PROTECTION",
                                        setProt, 0, {<<>>})}

\* DriverControl::PromoteHandle
PromoteHandle(m, pid, handle, access) ==
    LET grantAccess == [pid |-> pid, handle |-> handle, access |-> access]
    IN  IF m.hDriver = INVALID_HANDLE_VALUE
        THEN {Ret(m, STATUS_DEVICE_DOES_NOT_EXIST)}
        ELSE {IF ~m1.rv.ok THEN Ret(m1, LastNtStatus(m1)) ELSE Ret(m1, STATUS_SUCCESS)
               : m1 \in DeviceIoControl(m, m.hDriver, "IOCTL_BLACKBONE_GRANT_ACCESS",
                                        grantAccess, 0, {<<>>})}

\* AllocateMem changed to leave base and size alone when the call fails
AllocateMem_NoReset(m, pid, type, protection, physical) ==
    LET allocMem == [pid |-> pid, base |-> m.out[1], size |-> m.out[2], type |-> type,
                     protection |-> protection, allocate |-> TRUE, physical |-> physical]
        resps == {[address |-> a, size |-> Size0] : a \in RespAddrs}
    IN  IF m.hDriver = INVALID_HANDLE_VALUE
        THEN {Ret(m, STATUS_DEVICE_DOES_NOT_EXIST)}
        ELSE {IF ~m1.rv.ok
              THEN Ret(m1, LastNtStatus(m1))
              ELSE Ret([m1 EXCEPT !.out = <<m1.rv.resp.address, m1.rv.resp.size>>],
                       STATUS_SUCCESS)
               : m1 \in DeviceIoControl(m, m.hDriver, "IOCTL_BLACKBONE_ALLOCATE_FREE_MEMORY",
                                        allocMem, 2, resps)}

\* DriverControl::AllocateMem: out is <<base, size>>
AllocateMem(m, pid, type, protection, physical) ==
    LET allocMem == [pid |-> pid, base |-> m.out[1], size |-> m.out[2], type |-> type,
                     protection |-> protection, allocate |-> TRUE, physical |-> physical]
        resps == {[address |-> a, size |-> Size0] : a \in RespAddrs}
    IN  IF m.hDriver = INVALID_HANDLE_VALUE
        THEN {Ret(m, STATUS_DEVICE_DOES_NOT_EXIST)}
        ELSE {IF ~m1.rv.ok
              THEN Ret([m1 EXCEPT !.out = <<0, 0>>], LastNtStatus(m1))
              ELSE Ret([m1 EXCEPT !.out = <<m1.rv.resp.address, m1.rv.resp.size>>],
                       STATUS_SUCCESS)
               : m1 \in DeviceIoControl(m, m.hDriver, "IOCTL_BLACKBONE_ALLOCATE_FREE_MEMORY",
                                        allocMem, 2, resps)}

\* DriverControl::FreeMem
FreeMem(m, pid, base, size, type) ==
    LET freeMem == [pid |-> pid, base |-> base, size |-> size, type |-> type,
                    protection |-> 0, allocate |-> FALSE, physical |-> FALSE]
        resps == {[address |-> base, size |-> size]}
    IN  IF m.hDriver = INVALID_HANDLE_VALUE
        THEN {Ret(m, STATUS_DEVICE_DOES_NOT_EXIST)}
        ELSE {IF ~m1.rv.ok THEN Ret(m1, LastNtStatus(m1)) ELSE Ret(m1, STATUS_SUCCESS)
               : m1 \in DeviceIoControl(m, m.hDriver, "IOCTL_BLACKBONE_ALLOCATE_FREE_MEMORY",
                                        freeMem, 2, resps)}

\* DriverControl::ReadMem
ReadMem(m, pid, base, size, buffer) ==
    LET copyMem == [pid |-> pid, targetPtr |-> base, localbuf |-> buffer, size |-> size,
                    write |-> FALSE]
    IN  IF m.hDriver = INVALID_HANDLE_VALUE
        THEN {Ret(m, STATUS_DEVICE_DOES_NOT_EXIST)}
        ELSE {IF ~m1.rv.ok THEN Ret(m1, LastNtStatus(m1)) ELSE Ret(m1, STATUS_SUCCESS)
               : m1 \in DeviceIoControl(m, m.hDriver, "IOCTL_BLACKBONE_COPY_MEMORY",
                                        copyMem, 0, {<<>>})}

\* DriverControl::WriteMem
WriteMem(m, pid, base, size, buffer) ==
    LET copyMem == [pid |-> pid, targetPtr |-> base, localbuf |-> buffer, size |-> size,
                    write |-> TRUE]
    IN  IF m.hDriver = INVALID_HANDLE_VALUE
        THEN {Ret(m, STATUS_DEVICE_DOES_NOT_EXIST)}
        ELSE {IF ~m1.rv.ok THEN Ret(m1, LastNtStatus(m1)) ELSE Ret(m1, STATUS_SUCCESS)
               : m1 \in DeviceIoControl(m, m.hDriver, "IOCTL_BLACKBONE_COPY_MEMORY",
                                        copyMem, 0, {<<>>})}

\* DriverControl::ProtectMem
ProtectMem(m, pid, base, size, protection) ==
    LET protectMem == [pid |-> pid, base |-> base, size |-> size,
                       newProtection |-> protection]
    IN  IF m.hDriver = INVALID_HANDLE_VALUE
        THEN {Ret(m, STATUS_DEVICE_DOES_NOT_EXIST)}
        ELSE {IF ~m1.rv.ok THEN Ret(m1, LastNtStatus(m1)) ELSE Ret(m1, STATUS_SUCCESS)
               : m1 \in DeviceIoControl(m, m.hDriver, "IOCTL_BLACKBONE_PROTECT_MEMORY",
                                        protectMem, 0, {<<>>})}

\* DriverControl::InjectDll
InjectDll(m, pid, path, itype, initRVA, initArg, unlink, wait) ==
    LET data == [FullDllPath |-> path, initArg |-> initArg, pid |-> pid,
                 initRVA |-> initRVA, wait |-> wait, unlink |-> unlink, type |-> itype]
    IN  IF m.hDriver = INVALID_HANDLE_VALUE
        THEN {Ret(m, STATUS_DEVICE_DOES_NOT_EXIST)}
        ELSE IF ~Fits(path, FieldCap) \/ ~Fits(initArg, FieldCap)
        THEN {Crash(m)}
        ELSE {IF ~m1.rv.ok THEN Ret(m1, LastNtStatus(m1)) ELSE Ret(m1, STATUS_SUCCESS)
               : m1 \in DeviceIoControl(m, m.hDriver, "IOCTL_BLACKBONE_INJECT_DLL",
                                        data, 0, {<<>>})}

\* RtlDosPathNameToNtPathName_U: the native form of a path, or no buffer (<<>>
\* with ok = FALSE) when the conversion fails
NtPathPrefix == <<"\\", "?", "?", "\\">>
RtlDosPathNameToNtPathName_U(path) ==
    {[ok |-> TRUE, Buffer |-> NtPathPrefix \o path], [ok |-> FALSE, Buffer |-> <<>>]}

\* the log after the conversion of path gave ustr
Converted(m, path, ustr) ==
    Log(m, EvOut("RtlDosPathNameToNtPathName_U", 0, <<path>>,
                 IF ustr.ok THEN 1 ELSE 0, ustr.Buffer))

\* MMapDriver changed to lack the test of _hDriver
MMapDriver_NoCheck(m, path) ==
    UNION {
      IF ~ustr.ok \/ ~Fits(ustr.Buffer, FieldCap)
      THEN {Crash(Converted(m, path, ustr))}
      ELSE LET data == [FullPath |-> ustr.Buffer]
               m0 == Log(Converted(m, path, ustr), Ev("RtlFreeUnicodeString", 0, <<>>, 0))
           IN  {IF ~m1.rv.ok THEN Ret(m1, LastNtStatus(m1)) ELSE Ret(m1, STATUS_SUCCESS)
                 : m1 \in DeviceIoControl(m0, m0.hDriver, "IOCTL_BLACKBONE_MAP_DRIVER",
                                          data, 0, {<<>>})}
      : ustr \in RtlDosPathNameToNtPathName_U(path) }

\* DriverControl::MMapDriver
MMapDriver(m, path) ==
    IF m.hDriver = INVALID_HANDLE_VALUE
    THEN {Ret(m, STATUS_DEVICE_DOES_NOT_EXIST)}
    ELSE UNION {
           IF ~ustr.ok \/ ~Fits(ustr.Buffer, FieldCap)
           THEN {Crash(Converted(m, path, ustr))}
           ELSE LET data == [FullPath |-> ustr.Buffer]
                    m0 == Log(Converted(m, path, ustr),
                              Ev("RtlFreeUnicodeString", 0, <<>>, 0))
                IN  {IF ~m1.rv.ok THEN Ret(m1, LastNtStatus(m1)) ELSE Ret(m1, STATUS_SUCCESS)
                      : m1 \in DeviceIoControl(m0, m0.hDriver, "IOCTL_BLACKBONE_MAP_DRIVER",
                                               data, 0, {<<>>})}
           : ustr \in RtlDosPathNameToNtPathName_U(path) }

\* ConcealVAD changed to forget the handle when its call fails
ConcealVAD_DropsHandle(m, pid, base, size) ==
    LET hideVAD == [base |-> base, size |-> size, pid |-> pid]
    IN  IF m.hDriver = INVALID_HANDLE_VALUE
        THEN {Ret(m, STATUS_DEVICE_DOES_NOT_EXIST)}
        ELSE {IF ~m1.rv.ok
              THEN Ret([m1 EXCEPT !.hDriver = INVALID_HANDLE_VALUE], LastNtStatus(m1))
              ELSE Ret(m1, STATUS_SUCCESS)
               : m1 \in DeviceIoControl(m, m.hDriver, "IOCTL_BLACKBONE_HIDE_VAD",
                                        hideVAD, 0, {<<>>})}

\* DriverControl::ConcealVAD
ConcealVAD(m, pid, base, size) ==
    LET hideVAD == [base |-> base, size |-> size, pid |-> pid]
    IN  IF m.hDriver = INVALID_HANDLE_VALUE
        THEN {Ret(m, STATUS_DEVICE_DOES_NOT_EXIST)}
        ELSE {IF ~m1.rv.ok THEN Ret(m1, LastNtStatus(m1)) ELSE Ret(m1, STATUS_SUCCESS)
               : m1 \in DeviceIoControl(m, m.hDriver, "IOCTL_BLACKBONE_HIDE_VAD",
                                        hideVAD, 0, {<<>>})}

\* ------------------------------------------------------------------ actions
LifecycleOps == {"EnsureLoaded", "Reload", "Unload", "~DriverControl"}
OpKind(op) == IF op \in LifecycleOps \cup {"none"} THEN op ELSE "command"

\* The state after a method returned in machine state m
Commit(op, args, m) ==
    /\ hDriver' = m.hDriver
    /\ openHandles' = m.openHandles
    /\ badClose' = m.badClose
    /\ lastStatus' = m.lastStatus
    /\ crashed' = m.crashed
    /\ call' = [op |-> op, args |-> args, h0 |-> hDriver, ret |-> m.ret,
                out |-> m.out, events |-> m.events, ver |-> m.ver]
    /\ prevOp' = OpKind(call.op)
    /\ UNCHANGED mtVars

Alive == ~destroyed /\ ~crashed

DoEnsureLoaded ==
    /\ Alive
    /\ \E path \in Paths : \E m \in EnsureLoaded(Begin(<<>>), path) :
          Commit("EnsureLoaded", <<path>>, m)
    /\ UNCHANGED destroyed

DoReload ==
    /\ Alive
    /\ \E path \in Paths : \E m \in Reload(Begin(<<>>), path) :
          Commit("Reload", <<path>>, m)
    /\ UNCHANGED destroyed

DoUnload ==
    /\ Alive
    /\ \E m \in Unload(Begin(<<>>)) : Commit("Unload", <<>>, m)
    /\ UNCHANGED destroyed

\* DriverControl::~DriverControl
Destroy ==
    /\ Alive
    /\ \E m \in Unload(Begin(<<>>)) : Commit("~DriverControl", <<>>, m)
    /\ destroyed' = TRUE

DoMapMemory ==
    /\ Alive
    /\ \E pid \in Pids, pipeName \in Strings, mapSections \in {TRUE},
          result \in {EmptyResult, UsedResult} :
          \E m \in MapMemory(Begin(result), pid, pipeName, mapSections) :
             Commit("MapMemory", <<pid, pipeName, mapSections, result>>, m)
    /\ UNCHANGED destroyed

DoMapMemoryRegion ==
    /\ Alive
    /\ \E pid \in Pids : \E m \in MapMemoryRegion(Begin(<<>>), pid, Base0, Size0) :
          Commit("MapMemoryRegion", <<pid, Base0, Size0>>, m)
    /\ UNCHANGED destroyed

DoUnmapMemory ==
    /\ Alive
    /\ \E pid \in Pids : \E m \in UnmapMemory(Begin(<<>>), pid) :
          Commit("UnmapMemory", <<pid>>, m)
    /\ UNCHANGED destroyed

DoUnmapMemoryRegion ==
    /\ Alive
    /\ \E pid \in Pids : \E m \in UnmapMemoryRegion(Begin(<<>>), pid, Base0, Size0) :
          Commit("UnmapMemoryRegion", <<pid, Base0, Size0>>, m)
    /\ UNCHANGED destroyed

DoDisableDEP ==
    /\ Alive
    /\ \E pid \in Pids : \E m \in DisableDEP(Begin(<<>>), pid) :
          Commit("DisableDEP", <<pid>>, m)
    /\ UNCHANGED destroyed

DoProtectProcess ==
    /\ Alive
    /\ \E pid \in Pids, enable \in {TRUE} :
          \E m \in ProtectProcess(Begin(<<>>), pid, enable) :
             Commit("ProtectProcess", <<pid, enable>>, m)
    /\ UNCHANGED destroyed

DoPromoteHandle ==
    /\ Alive
    /\ \E pid \in Pids : \E m \in PromoteHandle(Begin(<<>>), pid, 44, 2035711) :
          Commit("PromoteHandle", <<pid, 44, 2035711>>, m)
    /\ UNCHANGED destroyed

DoAllocateMem ==
    /\ Alive
    /\ \E pid \in Pids, base \in {Base0}, physical \in {FALSE} :
          \E m \in AllocateMem(Begin(<<base, Size0>>), pid, 12288, 4, physical) :
             Commit("AllocateMem", <<pid, base, Size0, 12288, 4, physical>>, m)
    /\ UNCHANGED destroyed

DoFreeMem ==
    /\ Alive
    /\ \E pid \in Pids : \E m \in FreeMem(Begin(<<>>), pid, Base0, Size0, 32768) :
          Commit("FreeMem", <<pid, Base0, Size0, 32768>>, m)
    /\ UNCHANGED destroyed

DoReadMem ==
    /\ Alive
    /\ \E pid \in Pids : \E m \in ReadMem(Begin(<<>>), pid, Base0, Size0, 77) :
          Commit("ReadMem", <<pid, Base0, Size0, 77>>, m)
    /\ UNCHANGED destroyed

DoWriteMem ==
    /\ Alive
    /\ \E pid \in Pids : \E m \in WriteMem(Begin(<<>>), pid, Base0, Size0, 77) :
          Commit("WriteMem", <<pid, Base0, Size0, 77>>, m)
    /\ UNCHANGED destroyed

DoProtectMem ==
    /\ Alive
    /\ \E pid \in Pids : \E m \in ProtectMem(Begin(<<>>), pid, Base0, Size0, 64) :
          Commit("ProtectMem", <<pid, Base0, Size0, 64>>, m)
    /\ UNCHANGED destroyed

DoInjectDll ==
    /\ Alive
    /\ \E pid \in Pids, path \in Strings, initArg \in Strings :
          \E m \in InjectDll(Begin(<<>>), pid, path, "IT_Thread", 0, initArg, FALSE, TRUE) :
             Commit("InjectDll", <<pid, path, "IT_Thread", 0, initArg, FALSE, TRUE>>, m)
    /\ UNCHANGED destroyed

DoMMapDriver ==
    /\ Alive
    /\ \E path \in DriverPaths : \E m \in MMapDriver(Begin(<<>>), path) :
          Commit("MMapDriver", <<path>>, m)
    /\ UNCHANGED destroyed

DoConcealVAD ==
    /\ Alive
    /\ \E pid \in Pids : \E m \in ConcealVAD(Begin(<<>>), pid, Base0, Size0) :
          Commit("ConcealVAD", <<pid, Base0, Size0>>, m)
    /\ UNCHANGED destroyed

\* ------------------------------------------------------------- observation
CommandOps == {"MapMemory", "MapMemoryRegion", "UnmapMemory", "UnmapMemoryRegion",
               "DisableDEP", "ProtectProcess", "PromoteHandle", "AllocateMem", "FreeMem",
               "ReadMem", "WriteMem", "ProtectMem", "InjectDll", "MMapDriver", "ConcealVAD"}

\* the positions of the OS calls named name in a log
At(evs, name) == {i \in 1..Len(evs) : evs[i].call = name}
Count(evs, name) == Cardinality(At(evs, name))
\* the registry calls that can fail
RegWrites == {"RegOpenKeyW", "RegCreateKeyW", "RegSetValueExW"}
RegFailedIn(evs) == \E i \in 1..Len(evs) : evs[i].call \in RegWrites /\ evs[i].res # 0
\* the number of Reload sequences an EnsureLoaded call went through: each
\* begins with exactly one stop/unload instruction
Reloads(c) == Count(c.events, "NtUnloadDriver")
\* the load steps: open, registry write, start service
LoadSteps(c) == Count(c.events, "CreateFile") + Count(c.events, "RegOpenKeyW")
                + Count(c.events, "RegCreateKeyW") + Count(c.events, "RegSetValueExW")
                + Count(c.events, "NtLoadDriver")
RECURSIVE Select(_, _)
\* the calls named name of a log, in order
Select(evs, name) ==
    IF evs = <<>> THEN <<>>
    ELSE (IF Head(evs).call = name THEN <<Head(evs)>> ELSE <<>>) \o Select(Tail(evs), name)

\* ------------------------------------------------------------------ claims

\* C1: a command operation called while the control handle is not open returns
\* STATUS_DEVICE_DOES_NOT_EXIST and issues no device-control call.
C1_NotLoadedNoIo ==
    (call.op \in CommandOps /\ call.h0 = INVALID_HANDLE_VALUE)
        => /\ call.ret = STATUS_DEVICE_DOES_NOT_EXIST
           /\ Count(call.events, "DeviceIoControl") = 0
           /\ call.events = <<>>
           /\ ~crashed

C1_Witness ==
    /\ call.op = "MMapDriver"
    /\ call.h0 = INVALID_HANDLE_VALUE
    /\ call.ret = STATUS_DEVICE_DOES_NOT_EXIST
    /\ prevOp = "command"

\* C2 as stated: of two EnsureLoaded calls in succession the second returns
\* Success without any open, registry write or start-service step, and the two
\* together go through at most one load sequence, whatever the first call's outcome.
C2_Original ==
    [][(call.op = "EnsureLoaded" /\ call'.op = "EnsureLoaded")
          => /\ call'.ret = STATUS_SUCCESS
             /\ LoadSteps(call') = 0
             /\ Reloads(call) + Reloads(call') <= 1]_vars

\* C2 amended: when the first of two EnsureLoaded calls in succession returned
\* Success, the second returns Success without any OS call, and the two
\* together go through at most one load sequence.
C2_SecondIsNoOp ==
    [][(call.op = "EnsureLoaded" /\ call.ret = STATUS_SUCCESS /\ call'.op = "EnsureLoaded")
          => /\ call'.ret = STATUS_SUCCESS
             /\ LoadSteps(call') = 0
             /\ call'.events = <<>>
             /\ Reloads(call) + Reloads(call') <= 1]_vars

C2_Witness ==
    /\ prevOp = "EnsureLoaded"
    /\ call.op = "EnsureLoaded"
    /\ call.h0 # INVALID_HANDLE_VALUE
    /\ call.ret = STATUS_SUCCESS
    /\ call.events = <<>>

\* C3: the instance holds at most one open handle to the control device, and
\* _hDriver is the sentinel exactly when it holds none (the open handles are
\* exactly the stored one).
C3_OneHandle ==
    /\ Cardinality(openHandles) <= 1
    /\ (hDriver = INVALID_HANDLE_VALUE) <=> (openHandles = {})
    /\ hDriver # INVALID_HANDLE_VALUE => openHandles = {hDriver}

C3_Witness ==
    /\ call.op = "Reload"
    /\ call.h0 # INVALID_HANDLE_VALUE
    /\ hDriver # INVALID_HANDLE_VALUE
    /\ openHandles = {hDriver}
    /\ Count(call.events, "CloseHandle") = 1

\* C4 as stated: Reload returns Success exactly when the handle is open at its
\* return; a failed start gives a non-success status with the sentinel, a failed
\* open gives a non-success status with the sentinel, and Success is returned
\* only when both the start and the open succeeded.
C4_Claim ==
    call.op = "Reload" =>
        LET starts == Select(call.events, "NtLoadDriver")
            opens == Select(call.events, "CreateFile")
            startOk == Len(starts) = 1 /\ NT_SUCCESS(starts[1].res)
            startFailed == Len(starts) = 1 /\ ~NT_SUCCESS(starts[1].res)
            openOk == Len(opens) = 1 /\ opens[1].res = 1
            openFailed == Len(opens) = 1 /\ opens[1].res = 0
        IN  /\ (call.ret = STATUS_SUCCESS) <=> (hDriver # INVALID_HANDLE_VALUE)
            /\ startFailed => (call.ret # STATUS_SUCCESS /\ hDriver = INVALID_HANDLE_VALUE)
            /\ openFailed => (call.ret # STATUS_SUCCESS /\ hDriver = INVALID_HANDLE_VALUE)
            /\ call.ret = STATUS_SUCCESS => (startOk /\ openOk)

\* C5 as stated: when writing the service registration fails during a Reload,
\* the start-service instruction is not issued, Reload returns a non-success
\* status, and the handle is the sentinel.
C5_Claim ==
    (call.op = "Reload" /\ RegFailedIn(call.events)) =>
        /\ Count(call.events, "NtLoadDriver") = 0
        /\ ~NT_SUCCESS(call.ret)
        /\ hDriver = INVALID_HANDLE_VALUE

\* C6: Unload leaves the handle closed and _hDriver the sentinel whatever the
\* stop/unload instruction reports, issues that instruction once, after the
\* close, and returns the status it reported.
C6_Unload ==
    call.op = "Unload" =>
        LET n == Len(call.events)
        IN  /\ hDriver = INVALID_HANDLE_VALUE
            /\ openHandles = {}
            /\ n >= 1
            /\ call.events[n].call = "NtUnloadDriver"
            /\ Count(call.events, "NtUnloadDriver") = 1
            /\ call.ret = call.events[n].res
            /\ call.h0 # INVALID_HANDLE_VALUE
                  => (n = 2 /\ call.events[1].call = "CloseHandle"
                            /\ call.events[1].h = call.h0)
            /\ call.h0 = INVALID_HANDLE_VALUE => n = 1

C6_Witness ==
    /\ call.op = "Unload"
    /\ call.h0 # INVALID_HANDLE_VALUE
    /\ call.ret \in UnloadFail
    /\ hDriver = INVALID_HANDLE_VALUE

\* C7: no CloseHandle is ever made on a handle that is not open or on the
\* sentinel, so every opened handle is closed at most once.
C7_NoDoubleClose ==
    /\ badClose = 0
    /\ \A i \in At(call.events, "CloseHandle") :
          call.events[i].h # INVALID_HANDLE_VALUE /\ call.events[i].res = 1

C7_Witness ==
    /\ prevOp = "Unload"
    /\ call.op \in {"Unload", "Reload", "~DriverControl"}
    /\ call.h0 = INVALID_HANDLE_VALUE
    /\ Count(call.events, "CloseHandle") = 0
    /\ Count(call.events, "NtUnloadDriver") = 1

\* C8: Reload issues the stop/unload instruction first and goes on to the
\* registration whatever status that instruction reports, and to the start
\* instruction whenever the registration succeeded.
C8_ReloadUnloadsFirst ==
    call.op = "Reload" =>
        LET evs == call.events
            u == IF call.h0 # INVALID_HANDLE_VALUE THEN 2 ELSE 1
        IN  /\ Len(evs) > u
            /\ evs[u].call = "NtUnloadDriver"
            /\ \A i \in 1..(u - 1) : evs[i].call = "CloseHandle"
            /\ evs[u + 1].call = "RegOpenKeyW"
            /\ ~RegFailedIn(evs) => Count(evs, "NtLoadDriver") = 1
            /\ \A i \in At(evs, "NtLoadDriver") : i > u + 1

C8_Witness ==
    /\ call.op = "Reload"
    /\ call.h0 = INVALID_HANDLE_VALUE
    /\ call.events[1].call = "NtUnloadDriver"
    /\ call.events[1].res \in UnloadFail
    /\ Count(call.events, "NtLoadDriver") = 1
    /\ call.ret = STATUS_SUCCESS

\* C9: MapMemory issues the fetch device-control call exactly when the probe
\* call succeeded and reported 4 bytes; the fetch carries the probe's request
\* record and an output buffer of the size the probe reported.
C9_MapMemoryGating ==
    (call.op = "MapMemory" /\ call.h0 # INVALID_HANDLE_VALUE /\ ~crashed) =>
        LET io == Select(call.events, "DeviceIoControl")
        IN  /\ Len(io) \in {1, 2}
            /\ (Len(io) = 2) <=> (io[1].res = 1 /\ io[1].out.bytes = PROBE_BYTES)
            /\ Len(io) = 2 =>
                  /\ io[2].h = io[1].h
                  /\ io[2].arg[1] = io[1].arg[1]
                  /\ io[2].arg[2] = io[1].arg[2]
                  /\ io[2].arg[3] = io[1].out.sizeRequired

C9_Witness ==
    /\ call.op = "MapMemory"
    /\ call.ret = STATUS_SUCCESS
    /\ Count(call.events, "DeviceIoControl") = 2
    /\ call.out.regions # {}

\* C10 as stated: when the probe fails, or succeeds with a byte count other
\* than 4, or the fetch fails, MapMemory returns a non-success status and the
\* caller's result object is unchanged.
C10_Claim ==
    (call.op = "MapMemory" /\ call.h0 # INVALID_HANDLE_VALUE /\ ~crashed) =>
        LET io == Select(call.events, "DeviceIoControl")
            probeFailed == io[1].res = 0
            probeOdd == io[1].res = 1 /\ io[1].out.bytes # PROBE_BYTES
            fetchFailed == Len(io) = 2 /\ io[2].res = 0
        IN  (probeFailed \/ probeOdd \/ fetchFailed)
               => (~NT_SUCCESS(call.ret) /\ call.out = call.args[4])


\* C11 as stated: on every return path of MapMemory, each result buffer the
\* call allocated has been released before the return: every malloc of the
\* call that returned a block is followed by a free.
C11_Claim ==
    (call.op = "MapMemory" /\ ~crashed) =>
        \A i \in At(call.events, "malloc") :
            call.events[i].res # 0 => \E j \in At(call.events, "free") : j > i

\* the fetch response of a MapMemory call that took the success path
FetchOk(c) ==
    LET io == Select(c.events, "DeviceIoControl")
    IN  c.op = "MapMemory" /\ Len(io) = 2 /\ io[2].res = 1
FetchResp(c) == Select(c.events, "DeviceIoControl")[2].out
EntryKey(e) == <<e.originalPtr, e.size>>
Keys(regions) == {e.key : e \in regions}

\* C12 as stated: when the probe reported 4 bytes and the fetch returned N
\* entries, the region set of the result holds exactly N entries, one
\* (original address, size) -> new address pair per response entry, and the
\* shared pages and the pipe handle are those of the response.
C12_Original ==
    (FetchOk(call) /\ ~crashed) =>
        LET r == FetchResp(call)
        IN  /\ call.ret = STATUS_SUCCESS
            /\ Cardinality(call.out.regions) = r.count
            /\ \A i \in 1..r.count :
                  [key |-> EntryKey(r.entries[i]), val |-> r.entries[i].newPtr]
                      \in call.out.regions
            /\ call.out.hostSharedPage = r.hostPage
            /\ call.out.targetSharedPage = r.targetPage
            /\ call.out.targetPipe = r.pipeHandle

\* C12 amended: when the probe reported 4 bytes and the fetch returned N
\* entries, MapMemory returns Success; the region set of the result is the
\* caller's set at entry, kept as it was, plus for every (original address,
\* size) key of the response that the set did not hold the new address of the
\* first response entry with that key; the shared pages and the pipe handle
\* are those of the response.  With an empty set at entry and N entries with
\* pairwise distinct keys the set holds exactly those N pairs.
C12_RegionsAccumulate ==
    (FetchOk(call) /\ ~crashed) =>
        LET r == FetchResp(call)
            old == call.args[4].regions
            new == call.out.regions
            first(k) == CHOOSE i \in 1..r.count :
                           /\ EntryKey(r.entries[i]) = k
                           /\ \A j \in 1..(i - 1) : EntryKey(r.entries[j]) # k
        IN  /\ call.ret = STATUS_SUCCESS
            /\ old \subseteq new
            /\ Keys(new) = Keys(old) \cup {EntryKey(r.entries[i]) : i \in 1..r.count}
            /\ Cardinality(new) = Cardinality(Keys(new))
            /\ \A e \in new \ old : e.val = r.entries[first(e.key)].newPtr
            /\ (old = {} /\ Cardinality(Keys(new)) = r.count) =>
                  new = {[key |-> EntryKey(r.entries[i]), val |-> r.entries[i].newPtr]
                            : i \in 1..r.count}
            /\ call.out.hostSharedPage = r.hostPage
            /\ call.out.targetSharedPage = r.targetPage
            /\ call.out.targetPipe = r.pipeHandle

C12_Witness ==
    /\ FetchOk(call)
    /\ call.ret = STATUS_SUCCESS
    /\ call.args[4] = UsedResult
    /\ FetchResp(call).count = 2
    /\ Cardinality(call.out.regions) = 2
    /\ call.out.targetPipe = 300

\* C13: AllocateMem called with the handle open issues one device-control
\* call; when that call fails the output base and size are both 0 and the
\* status is a non-success status; when it succeeds base and size are the
\* address and size of the driver's response and the status is Success.
C13_AllocateMemOutputs ==
    (call.op = "AllocateMem" /\ call.h0 # INVALID_HANDLE_VALUE) =>
        LET io == Select(call.events, "DeviceIoControl")
        IN  /\ Len(io) = 1
            /\ io[1].res = 0 => (call.out = <<0, 0>> /\ ~NT_SUCCESS(call.ret))
            /\ io[1].res = 1 => /\ call.out = <<io[1].out.address, io[1].out.size>>
                                /\ call.ret = STATUS_SUCCESS

C13_Witness ==
    /\ call.op = "AllocateMem"
    /\ call.h0 # INVALID_HANDLE_VALUE
    /\ call.args[2] = Base0
    /\ Select(call.events, "DeviceIoControl")[1].res = 0
    /\ call.out = <<0, 0>>
    /\ call.ret \in IoctlFail

\* C14 as stated: on every failing return of AllocateMem, the Not-Loaded
\* return included, the output base and size are 0.
C14_Claim ==
    (call.op = "AllocateMem" /\ ~NT_SUCCESS(call.ret)) => call.out = <<0, 0>>

\* the file paths a call wrote as ImagePath of the registration entry
ImagePaths(c) ==
    {c.events[i].arg[2] : i \in {j \in At(c.events, "RegSetValueExW") :
                                    c.events[j].arg[1] = "ImagePath"}}
\* the registration value of the driver file named f next to the executable
DefaultImage(f) == <<"\\??\\", ExeDir, "\\", f>>

\* C15: Reload resolves the driver path whatever the version predicates
\* answer, asking newest first: 8.1-or-greater gives
\* BlackBoneDrv81.sys, otherwise 8-or-greater gives BlackBoneDrv8.sys,
\* otherwise 7-or-greater gives BlackBoneDrv7.sys, otherwise BlackBoneDrv.sys;
\* the path is the executable's directory joined with that one filename, and
\* a supplied non-empty path is used unchanged without asking for the version.
C15_DefaultPath ==
    (call.op \in {"Reload", "EnsureLoaded"} /\ Reloads(call) >= 1) =>
        LET supplied == call.args[1]
            w == call.ver
            written == ImagePaths(call)
        IN  /\ supplied # <<>> => (w = <<>> /\ written \subseteq {<<"\\??\\">> \o supplied})
            /\ supplied = <<>> =>
                  /\ w \in {<<TRUE>>, <<FALSE, TRUE>>, <<FALSE, FALSE, TRUE>>,
                            <<FALSE, FALSE, FALSE>>}
                  /\ Cardinality(written) <= 1
                  /\ w = <<TRUE>> => written \subseteq {DefaultImage("BlackBoneDrv81.sys")}
                  /\ w = <<FALSE, TRUE>> =>
                        written \subseteq {DefaultImage("BlackBoneDrv8.sys")}
                  /\ w = <<FALSE, FALSE, TRUE>> =>
                        written \subseteq {DefaultImage("BlackBoneDrv7.sys")}
                  /\ w = <<FALSE, FALSE, FALSE>> =>
                        written \subseteq {DefaultImage("BlackBoneDrv.sys")}

C15_Witness ==
    /\ call.op = "Reload"
    /\ call.args[1] = <<>>
    /\ call.ver = <<FALSE, TRUE>>
    /\ ImagePaths(call) = {DefaultImage("BlackBoneDrv8.sys")}
    /\ call.ret = STATUS_SUCCESS

\* the operations whose request record has string fields
StringOps == {"InjectDll", "MMapDriver", "MapMemory"}
\* the strings a call copies into its request record, each with its field;
\* for MMapDriver the string is the native path the conversion produced
StringFields(c) ==
    CASE c.op = "InjectDll" -> {[src |-> c.args[2], field |-> "FullDllPath"],
                                [src |-> c.args[5], field |-> "initArg"]}
      [] c.op = "MapMemory" -> {[src |-> c.args[2], field |-> "pipeName"]}
      [] c.op = "MMapDriver" ->
           {[src |-> c.events[i].out, field |-> "FullPath"]
               : i \in {j \in At(c.events, "RtlDosPathNameToNtPathName_U") :
                           c.events[j].res = 1}}
      [] OTHER -> {}
\* a call that reached the copy of its strings, all of them at most n long
CopiesStrings(c, n) ==
    /\ c.op \in StringOps
    /\ c.h0 # INVALID_HANDLE_VALUE
    /\ StringFields(c) # {}
    /\ \A f \in StringFields(c) : Len(f.src) <= n
\* the call issued its request with every string in its field as it was
PlacedUnchanged(c) ==
    LET io == Select(c.events, "DeviceIoControl")
    IN  /\ io # <<>>
        /\ \A f \in StringFields(c) : io[1].arg[2][f.field] = f.src

\* C16 as stated: strings of the request records (InjectDll path and init
\* argument, MMapDriver native path, MapMemory pipe name) whose length is at
\* or below the capacity of their field are placed in the request unchanged
\* and the request is issued, for every length from 0 up to the capacity.
C16_Original ==
    CopiesStrings(call, FieldCap) => (~crashed /\ PlacedUnchanged(call))

\* C16 amended: the capacity of a field counts the terminator, so strings of
\* length at most capacity - 1 are placed in the request unchanged and the
\* request is issued; a call with a string of length capacity or more issues
\* no request.
C16_StringsBelowCapacity ==
    /\ CopiesStrings(call, FieldCap - 1) => (~crashed /\ PlacedUnchanged(call))
    /\ (call.op \in StringOps /\ \E f \in StringFields(call) : Len(f.src) >= FieldCap)
          => Count(call.events, "DeviceIoControl") = 0

C16_Witness ==
    /\ call.op = "MMapDriver"
    /\ CopiesStrings(call, FieldCap - 1)
    /\ \E f \in StringFields(call) : Len(f.src) = FieldCap - 1
    /\ ~crashed
    /\ PlacedUnchanged(call)

\* the OS calls of the Reload a call went through: all of a Reload call, those
\* after the failed direct open of an EnsureLoaded call
ReloadEvents(c) == IF c.op = "Reload" THEN c.events ELSE Tail(c.events)
RanReload(c) == c.op \in {"Reload", "EnsureLoaded"} /\ Reloads(c) >= 1
\* the steps of Reload: 1 stop/unload, 2 write registration, 3 start, 4 open
StepOf(e) ==
    CASE e.call \in {"CloseHandle", "NtUnloadDriver"} -> 1
      [] e.call \in {"RegOpenKeyW", "RegCreateKeyW", "RegSetValueExW", "RegCloseKey"} -> 2
      [] e.call = "NtLoadDriver" -> 3
      [] e.call = "CreateFile" -> 4
      [] OTHER -> 0
\* the steps come in the order stop/unload, registration, start, open
StepsInOrder(evs) ==
    /\ \A i \in 1..Len(evs) : StepOf(evs[i]) # 0
    /\ \A i, j \in 1..Len(evs) : i < j => StepOf(evs[i]) <= StepOf(evs[j])
\* registration is attempted in every Reload, and is written before a start
RegisteredBeforeStart(evs) ==
    /\ Count(evs, "RegOpenKeyW") = 1
    /\ \A i \in At(evs, "NtLoadDriver") :
          /\ ~RegFailedIn(evs)
          /\ \E j \in 1..(i - 1) : evs[j].call = "RegSetValueExW" /\ evs[j].arg[1] = "ImagePath"
          /\ \E j \in 1..(i - 1) : evs[j].call = "RegSetValueExW" /\ evs[j].arg[1] = "Type"
\* the open is attempted only after a start that succeeded
OpenAfterStart(evs) ==
    \A i \in At(evs, "CreateFile") :
        \E j \in 1..(i - 1) : evs[j].call = "NtLoadDriver" /\ NT_SUCCESS(evs[j].res)
\* when the open fails after a successful start no stop/unload follows and the
\* handle is not open
NoStopAfterFailedOpen(evs) ==
    \A i \in At(evs, "CreateFile") :
        evs[i].res = 0 =>
            /\ \A j \in (i + 1)..Len(evs) : evs[j].call # "NtUnloadDriver"
            /\ \A j \in At(evs, "NtLoadDriver") :
                  \A k \in (j + 1)..Len(evs) : evs[k].call # "NtUnloadDriver"
            /\ hDriver = INVALID_HANDLE_VALUE

\* C18 as stated: inside Reload the steps come in the order stop/unload, write
\* registration, start, open; the registration is written on every Reload
\* before the start; the open is attempted only after a successful start; and
\* when the open fails after a successful start no stop/unload is issued, so
\* the service stays started while the handle is not open.
C18_Claim ==
    RanReload(call) =>
        LET evs == ReloadEvents(call)
        IN  /\ StepsInOrder(evs)
            /\ RegisteredBeforeStart(evs)
            /\ OpenAfterStart(evs)
            /\ NoStopAfterFailedOpen(evs)

\* C19: EnsureLoaded called with the handle not open tries the direct open
\* first; when that open succeeds it returns Success with the handle open and
\* makes no other OS call: no registry write, no start, no stop.  It goes
\* through Reload only when the direct open failed.  Unload makes no registry
\* call: it never modifies or deletes the registration entry.
C19_FastPath ==
    /\ (call.op = "EnsureLoaded" /\ call.h0 = INVALID_HANDLE_VALUE) =>
          /\ call.events # <<>>
          /\ call.events[1].call = "CreateFile"
          /\ call.events[1].res = 1 =>
                /\ Len(call.events) = 1
                /\ call.ret = STATUS_SUCCESS
                /\ hDriver = call.events[1].h
                /\ hDriver \in openHandles
          /\ call.events[1].res = 0 => Reloads(call) = 1
    /\ (call.op = "EnsureLoaded" /\ Reloads(call) >= 1) =>
          /\ call.h0 = INVALID_HANDLE_VALUE
          /\ call.events[1].call = "CreateFile"
          /\ call.events[1].res = 0
    /\ call.op \in {"Unload", "~DriverControl"} =>
          \A i \in 1..Len(call.events) :
              call.events[i].call \in {"CloseHandle", "NtUnloadDriver"}

C19_Witness ==
    /\ call.op = "EnsureLoaded"
    /\ prevOp = "Unload"
    /\ call.h0 = INVALID_HANDLE_VALUE
    /\ Len(call.events) = 1
    /\ call.events[1].call = "CreateFile"
    /\ call.events[1].res = 1
    /\ call.ret = STATUS_SUCCESS
    /\ hDriver # INVALID_HANDLE_VALUE

\* the device-control calls of a call, in order
IoCalls(c) == Select(c.events, "DeviceIoControl")
\* no device-control call follows one that failed
NoReissue(ios) == \A i \in 1..(Len(ios) - 1) : ios[i].res = 1

C21_CommandsKeepHandle ==
    [][/\ call'.op \in CommandOps =>
             /\ hDriver' = hDriver
             /\ call'.h0 = hDriver
             /\ openHandles' = openHandles
             /\ \A i \in At(call'.events, "DeviceIoControl") :
                   call'.events[i].h = hDriver
       /\ hDriver' # hDriver => call'.op \in LifecycleOps]_vars

\* a command succeeds on the handle on which the command before it ran and a
\* command has failed
C21_Witness ==
    /\ call.op = "ConcealVAD"
    /\ prevOp = "command"
    /\ lastStatus \in IoctlFail
    /\ call.ret = STATUS_SUCCESS
    /\ call.h0 # INVALID_HANDLE_VALUE
    /\ hDriver = call.h0
    /\ hDriver \in openHandles
    /\ IoCalls(call)[1].h = hDriver

Init ==
    /\ hDriver = INVALID_HANDLE_VALUE
    /\ openHandles = {}
    /\ badClose = 0
    /\ lastStatus = STATUS_SUCCESS
    /\ crashed = FALSE
    /\ destroyed = FALSE
    /\ call = [op |-> "none", args |-> <<>>, h0 |-> INVALID_HANDLE_VALUE,
               ret |-> STATUS_SUCCESS, out |-> <<>>, events |-> <<>>, ver |-> <<>>]
    /\ prevOp = "none"
    /\ th = [t \in Threads |-> [op |-> "none", pc |-> "idle",
                                h |-> INVALID_HANDLE_VALUE, hit |-> "none"]]
    /\ lastIo = NoIo
    /\ lost = {}
    /\ raced = FALSE

Next ==
    \/ DoEnsureLoaded
    \/ DoReload
    \/ DoUnload
    \/ Destroy
    \/ DoMapMemory
    \/ DoMapMemoryRegion
    \/ DoUnmapMemory
    \/ DoUnmapMemoryRegion
    \/ DoDisableDEP
    \/ DoProtectProcess
    \/ DoPromoteHandle
    \/ DoAllocateMem
    \/ DoFreeMem
    \/ DoReadMem
    \/ DoWriteMem
    \/ DoProtectMem
    \/ DoInjectDll
    \/ DoMMapDriver
    \/ DoConcealVAD

Spec == Init /\ [][Next]_vars

\* ------------------------------------------- two threads, no serialization
\* Two threads call methods of one DriverControl with nothing to serialize
\* them.  A method is cut at its accesses to _hDriver and at its OS calls.
\* _hDriver is read without synchronization, so a second read in a method
\* yields the value in memory or the value the method read before.
OtherThread(t) == CHOOSE u \in Threads : u # t
Idle(t) == th[t].pc = "idle"
\* thread t at position pc, holding h; a method that has returned holds nothing
AtPc(t, pc, h) ==
    IF pc = "idle"
    THEN [th EXCEPT ![t].pc = pc, ![t].h = INVALID_HANDLE_VALUE, ![t].hit = "none"]
    ELSE [th EXCEPT ![t].pc = pc, ![t].h = h]
\* the values a racy re-read of _hDriver can yield in thread t
ReRead(t) == {th[t].h, hDriver}

\* a step of the two-thread specification: the new thread states, _hDriver,
\* open handles and the device-control call issued in the step.  A handle is
\* lost when no method is running, it is open and _hDriver holds another value.
MtStep(th1, hDriver1, openHandles1, io1) ==
    /\ th' = th1
    /\ hDriver' = hDriver1
    /\ openHandles' = openHandles1
    /\ lastIo' = io1
    /\ lost' = IF \A t \in Threads : th1[t].pc = "idle"
               THEN lost \cup {[h |-> h, by |-> {th1[t].op : t \in Threads}]
                                  : h \in (openHandles1 \ {hDriver1})
                                          \ {l.h : l \in lost}}
               ELSE lost
    /\ UNCHANGED <<badClose, lastStatus, crashed, destroyed, call, prevOp>>

\* a thread enters a method while no call of it is running
MtCall(t) ==
    /\ Idle(t)
    /\ \E op \in {"UnmapMemory", "Unload", "Reload", "EnsureLoaded"} :
          LET pc == CASE op = "UnmapMemory" -> "c_check"
                      [] op = "EnsureLoaded" -> "e_check"
                      [] OTHER -> "u_check"
          IN  MtStep([th EXCEPT ![t] = [op |-> op, pc |-> pc,
                                        h |-> INVALID_HANDLE_VALUE, hit |-> "none"]],
                     hDriver, openHandles, NoIo)
    /\ raced' = (raced \/ ~Idle(OtherThread(t)))

\* UnmapMemory changed to lack the test of _hDriver
MtCmdCheck_NoTest(t) ==
    /\ th[t].pc = "c_check"
    /\ MtStep(AtPc(t, "c_issue", hDriver), hDriver, openHandles, NoIo)
    /\ UNCHANGED raced

\* UnmapMemory: if (_hDriver == INVALID_HANDLE_VALUE) return STATUS_DEVICE_DOES_NOT_EXIST
MtCmdCheck(t) ==
    /\ th[t].pc = "c_check"
    /\ MtStep(IF hDriver = INVALID_HANDLE_VALUE
              THEN AtPc(t, "idle", hDriver) ELSE AtPc(t, "c_issue", hDriver),
              hDriver, openHandles, NoIo)
    /\ UNCHANGED raced

\* UnmapMemory: DeviceIoControl( _hDriver, ... )
MtCmdIssue(t) ==
    /\ th[t].pc = "c_issue"
    /\ \E h \in ReRead(t) :
          MtStep(AtPc(t, "idle", h), hDriver, openHandles,
                 [h |-> h, open |-> h \in openHandles, closer |-> th[t].hit])
    /\ UNCHANGED raced

\* Unload: if (_hDriver != INVALID_HANDLE_VALUE)
MtUnloadCheck(t) ==
    /\ th[t].pc = "u_check"
    /\ MtStep(IF hDriver # INVALID_HANDLE_VALUE
              THEN AtPc(t, "u_close", hDriver) ELSE AtPc(t, "u_stop", hDriver),
              hDriver, openHandles, NoIo)
    /\ UNCHANGED raced

\* Unload: CloseHandle( _hDriver ).  A command of the other thread that has
\* passed its check with the handle closed here is marked with this method.
MtUnloadClose(t) ==
    /\ th[t].pc = "u_close"
    /\ \E h \in ReRead(t) :
          LET u == OtherThread(t)
              th1 == AtPc(t, "u_reset", h)
              th2 == IF th[u].pc = "c_issue" /\ th[u].h = h /\ h \in openHandles
                     THEN [th1 EXCEPT ![u].hit = th[t].op] ELSE th1
          IN  MtStep(th2, hDriver, openHandles \ {h}, NoIo)
    /\ UNCHANGED raced

\* Unload: _hDriver = INVALID_HANDLE_VALUE
MtUnloadReset(t) ==
    /\ th[t].pc = "u_reset"
    /\ MtStep(AtPc(t, "u_stop", INVALID_HANDLE_VALUE), INVALID_HANDLE_VALUE,
              openHandles, NoIo)
    /\ UNCHANGED raced

\* Unload: return UnloadDriver( DRIVER_SVC_NAME ); Reload goes on whatever it returns
MtUnloadStop(t) ==
    /\ th[t].pc = "u_stop"
    /\ MtStep(AtPc(t, IF th[t].op = "Unload" THEN "idle" ELSE "r_load", th[t].h),
              hDriver, openHandles, NoIo)
    /\ UNCHANGED raced

\* Reload: status = LoadDriver( DRIVER_SVC_NAME, path ); if (!NT_SUCCESS( status )) return
MtLoad(t) ==
    /\ th[t].pc = "r_load"
    /\ \E ok \in BOOLEAN :
          MtStep(AtPc(t, IF ok THEN "r_open" ELSE "idle", th[t].h),
                 hDriver, openHandles, NoIo)
    /\ UNCHANGED raced

\* EnsureLoaded: if (_hDriver != INVALID_HANDLE_VALUE) return STATUS_SUCCESS
MtEnsureCheck(t) ==
    /\ th[t].pc = "e_check"
    /\ MtStep(IF hDriver # INVALID_HANDLE_VALUE
              THEN AtPc(t, "idle", hDriver) ELSE AtPc(t, "e_open", hDriver),
              hDriver, openHandles, NoIo)
    /\ UNCHANGED raced

\* EnsureLoaded, Reload: the call CreateFile( BLACKBONE_DEVICE_FILE, ... )
MtOpen(t) ==
    /\ th[t].pc \in {"e_open", "r_open"}
    /\ LET free == (1..MaxHandles) \ openHandles
           next == IF th[t].pc = "e_open" THEN "e_store" ELSE "r_store"
       IN  \/ \E h \in {x \in free : \A y \in free : x <= y} :
                 MtStep(AtPc(t, next, h), hDriver, openHandles \cup {h}, NoIo)
           \/ MtStep(AtPc(t, next, INVALID_HANDLE_VALUE), hDriver, openHandles, NoIo)
    /\ UNCHANGED raced

\* EnsureLoaded, Reload: the assignment _hDriver = <result of CreateFile>.
\* Reload returns after it; EnsureLoaded goes on to test _hDriver.
MtStore(t) ==
    /\ th[t].pc \in {"e_store", "r_store"}
    /\ MtStep(AtPc(t, IF th[t].pc = "e_store" THEN "e_test" ELSE "idle", th[t].h),
              th[t].h, openHandles, NoIo)
    /\ UNCHANGED raced

\* EnsureLoaded: if (_hDriver != INVALID_HANDLE_VALUE) return STATUS_SUCCESS;
\* return Reload( path )
MtEnsureTest(t) ==
    /\ th[t].pc = "e_test"
    /\ \E h \in ReRead(t) :
          MtStep(AtPc(t, IF h # INVALID_HANDLE_VALUE THEN "idle" ELSE "u_check", h),
                 hDriver, openHandles, NoIo)
    /\ UNCHANGED raced

MtNext ==
    \E t \in Threads :
       \/ MtCall(t)
       \/ MtCmdCheck(t)
       \/ MtCmdIssue(t)
       \/ MtUnloadCheck(t)
       \/ MtUnloadClose(t)
       \/ MtUnloadReset(t)
       \/ MtUnloadStop(t)
       \/ MtLoad(t)
       \/ MtEnsureCheck(t)
       \/ MtOpen(t)
       \/ MtStore(t)
       \/ MtEnsureTest(t)

SpecMt == Init /\ [][MtNext]_vars

\* C17: without serialization the layer is unsafe, and only then.  A
\* device-control call reaches a handle that is not open, and an open handle
\* drops out of _hDriver, only after two methods have overlapped; a handle
\* that dropped out stays open for ever and never returns to _hDriver.
C17_UnsafeWhenConcurrent ==
    /\ ~lastIo.open => raced
    /\ lost # {} => raced
    /\ \A l \in lost : l.h \in openHandles /\ l.h # hDriver

\* a command passed its check, Unload or Reload of the other thread closed the
\* handle, and the command issued its call on the closed handle; and earlier
\* two overlapping EnsureLoaded calls both opened the device and one of the
\* handles dropped out of _hDriver while open
C17_Witness ==
    /\ ~lastIo.open
    /\ lastIo.h # INVALID_HANDLE_VALUE
    /\ lastIo.closer \in {"Unload", "Reload"}
    /\ \E l \in lost : l.by = {"EnsureLoaded"}

====
